---- MODULE Spec2Model ----
(***************************************************************************)
(* Fleece: the Hash Array Mapped Trie (HAMTree.cc) and the streaming       *)
(* Encoder (Encoder.cc).  The two subsystems share no state, so each has   *)
(* its own specification: SpecTree drives the HAMTree, SpecEnc the Encoder.*)
(***************************************************************************)
EXTENDS Integers, Sequences, FiniteSets, TLC

VARIABLES
    root,       \* HAMTree::_root : NoRoot, or the root InteriorNode
    treeState,  \* "ok", or why the process stopped inside a tree operation
    treeOp      \* the last HAMTree call: its arguments, what get(key) gave
                \* before it, and what it returned

VARIABLES
    out,            \* Encoder::_out, the bytes written: a sequence of segments
                    \* [pos, n, b], one per Writer::write, in stream order
    stack,          \* _stack[0 .. _stackDepth-1]; _items is its last frame, and
                    \* the empty stack is _items == NULL (after end)
    strings,        \* _strings, the interning table
    uniqueStrings,  \* _uniqueStrings
    sortKeys,       \* _sortKeys
    writingKey,     \* _writingKey
    blockedOnKey,   \* _blockedOnKey
    encOp,          \* the last Encoder call, the error it threw, and the last
                    \* call that returned normally
    nops            \* number of Encoder calls that returned normally

treeVars == <<root, treeState, treeOp>>

encVars == <<out, stack, strings, uniqueStrings, sortKeys, writingKey, blockedOnKey,
             encOp, nops>>

vars == <<root, treeState, treeOp, out, stack, strings, uniqueStrings, sortKeys,
          writingKey, blockedOnKey, encOp, nops>>

-----------------------------------------------------------------------------
(* Bounds of the model and constants of the program.                       *)

kBitShift == 6

kMaxChildren == 64

\* 8*sizeof(hash_t), hash_t = uint32_t
HashBits == 32

\* The build that is modelled keeps assert() (BUILD_TYPE: Debug).
AssertsEnabled == TRUE

-----------------------------------------------------------------------------
(* Keys.  Key and Key::hash() are declared in HAMTree.hh; a key is         *)
(* modelled by an identity and a 32-bit hash chosen so that the keys share *)
(* hash prefixes of every length the trie distinguishes.                   *)

Keys == 1..7

KeyHash(k) ==
    CASE k = 1 -> 1                 \* 0x00000001
      [] k = 2 -> 2                 \* 0x00000002: another root slice
      [] k = 3 -> 65                \* 0x00000041: root slice of key 1, differs at shift 6
      [] k = 4 -> 16777217          \* 0x01000001: low 24 bits of key 1, differs at shift 24
      [] k = 5 -> 33554433          \* 0x02000001: low 24 bits of key 1, differs at shift 24
      [] k = 6 -> 1073741825        \* 0x40000001: low 30 bits of key 1, differs in bit 30
      [] OTHER -> 1                 \* 0x00000001: the full hash of key 1

\* Val is opaque to the tree; two values tell an overwrite from a no-op.
Vals == {1, 2}

NoVal == 0

-----------------------------------------------------------------------------
(* Nodes.  A node is a leaf iff its capacity is 0.  An interior node holds *)
(* its bitmap as the set of bit numbers that are set, and its _children    *)
(* array as a sequence of _capacity slots (slot i of the code is element   *)
(* i+1); a slot holds a node, NullSlot (memset 0) or StaleSlot (never      *)
(* written, or left behind by memmove).                                    *)

NoRoot == [capacity |-> -1]

NullSlot == [capacity |-> -2]

StaleSlot == [capacity |-> -3]

LeafNode(h, k, v) == [capacity |-> 0, hash |-> h, key |-> k, val |-> v]

Target(k) == [capacity |-> 0, hash |-> KeyHash(k), key |-> k]

isLeaf(n) == n.capacity = 0

matches(leaf, h, k) == leaf.hash = h /\ leaf.key = k

matchesMutantHashOnly(leaf, target) == leaf.hash = target.hash

\* bool matches(const Target &target)
matchesTarget(leaf, target) == matches(leaf, target.hash, target.key)

newInteriorNode(capacity) ==
    [capacity |-> capacity, bitmap |-> {}, children |-> [i \in 1..capacity |-> NullSlot]]

childCount(n) == Cardinality(n.bitmap)

childBitNumber(hash, shift) == (hash \div (2 ^ shift)) % kMaxChildren

childIndexForBitNumber(n, bitNo) == Cardinality({b \in n.bitmap : b < bitNo})

hasChild(n, bitNo) == bitNo \in n.bitmap

\* The result of a node operation: st is "ok" or the reason the process
\* stopped; node is the node the call returns (this, or the node grow()
\* allocated); grew tells the two apart; ret is remove's result.
Res(st, n, grew, ret) == [st |-> st, node |-> n, grew |-> grew, ret |-> ret]

grow(n) ==
    IF AssertsEnabled /\ ~(n.capacity < kMaxChildren)
    THEN Res("assert", n, FALSE, FALSE)
    ELSE Res("ok", [capacity |-> n.capacity + 1, bitmap |-> n.bitmap,
                    children |-> [i \in 1..(n.capacity + 1) |->
                                    IF i <= n.capacity THEN n.children[i] ELSE StaleSlot]],
             TRUE, FALSE)

_addChildMutantNoShift(n, bitNo, childIndex, child) ==
    [n EXCEPT !.children[childIndex + 1] = child, !.bitmap = n.bitmap \cup {bitNo}]

\* memmove(&_children[childIndex+1], &_children[childIndex], ...), then the store.
_addChild(n, bitNo, childIndex, child) ==
    [n EXCEPT !.children = [i \in 1..n.capacity |->
                              IF i = childIndex + 1 THEN child
                              ELSE IF i > childIndex + 1 THEN n.children[i - 1]
                              ELSE n.children[i]],
              !.bitmap = n.bitmap \cup {bitNo}]

addChild(n, bitNo, child) ==
    LET childIndex == childIndexForBitNumber(n, bitNo)
        g == IF childCount(n) < n.capacity THEN Res("ok", n, FALSE, FALSE) ELSE grow(n)
    IN  IF g.st # "ok" THEN g
        ELSE Res("ok", _addChild(g.node, bitNo, childIndex, child), g.grew, FALSE)

removeChildMutantNoShift(n, bitNo, childIndex) ==
    [n EXCEPT !.bitmap = n.bitmap \ {bitNo}]

\* memmove(&_children[childIndex], &_children[childIndex+1], ...): the last
\* slot keeps what it held.
removeChild(n, bitNo, childIndex) ==
    [n EXCEPT !.children = [i \in 1..n.capacity |->
                              IF i >= childIndex + 1 /\ i < n.capacity
                              THEN n.children[i + 1]
                              ELSE IF i = n.capacity THEN StaleSlot
                              ELSE n.children[i]],
              !.bitmap = n.bitmap \ {bitNo}]

RECURSIVE itemCount(_)
itemCount(n) ==
    LET RECURSIVE sum(_)
        sum(i) == IF i = 0 THEN 0
                  ELSE sum(i - 1) + (IF isLeaf(n.children[i]) THEN 1
                                     ELSE itemCount(n.children[i]))
    IN  sum(childCount(n))

RECURSIVE find(_, _)
find(n, hash) ==
    LET bitNo == childBitNumber(hash, 0)
    IN  IF ~hasChild(n, bitNo) THEN NullSlot
        ELSE LET child == n.children[childIndexForBitNumber(n, bitNo) + 1]
             IN  IF isLeaf(child) THEN child
                 ELSE find(child, hash \div (2 ^ kBitShift))

insertMutantNoOverwrite(leaf, target) == leaf

\* leaf->_val = target._val
overwriteLeaf(leaf, target) == [leaf EXCEPT !.val = target.val]

RECURSIVE insert(_, _, _)
insert(this, target, shift) ==
    IF AssertsEnabled /\ ~(shift + kBitShift < HashBits)
    THEN Res("assert", this, FALSE, FALSE)
    ELSE
    LET bitNo == childBitNumber(target.hash, shift)
    IN  IF ~hasChild(this, bitNo)
        THEN addChild(this, bitNo, target)
        ELSE
        LET i == childIndexForBitNumber(this, bitNo)
            childRef == this.children[i + 1]
            put(c) == [this EXCEPT !.children[i + 1] = c]
        IN  IF AssertsEnabled /\ ~(i < this.capacity)
            THEN Res("assert", this, FALSE, FALSE)
            ELSE IF isLeaf(childRef)
            THEN IF matchesTarget(childRef, target)
                 THEN Res("ok", put(overwriteLeaf(childRef, target)), FALSE, FALSE)
                 ELSE
                 LET level == shift \div kBitShift
                     node == newInteriorNode(2 + (IF level < 1 THEN 1 ELSE 0)
                                               + (IF level < 3 THEN 1 ELSE 0))
                     childBitNo == childBitNumber(childRef.hash, shift + kBitShift)
                     a == addChild(node, childBitNo, childRef)
                     r == insert(a.node, target, shift + kBitShift)
                 IN  IF a.st # "ok" THEN Res(a.st, this, FALSE, FALSE)
                     ELSE IF r.st # "ok" THEN Res(r.st, this, FALSE, FALSE)
                     \* both results are dropped: childRef keeps pointing at a node
                     \* that grow() deleted
                     ELSE IF a.grew \/ r.grew THEN Res("dangling", this, FALSE, FALSE)
                     ELSE Res("ok", put(r.node), FALSE, FALSE)
            ELSE
                 LET r == insert(childRef, target, shift + kBitShift)
                 IN  IF r.st # "ok" THEN Res(r.st, this, FALSE, FALSE)
                     ELSE Res("ok", put(r.node), FALSE, FALSE)

RECURSIVE remove(_, _, _)
remove(this, target, shift) ==
    IF AssertsEnabled /\ ~(shift + kBitShift < HashBits)
    THEN Res("assert", this, FALSE, FALSE)
    ELSE
    LET bitNo == childBitNumber(target.hash, shift)
    IN  IF ~hasChild(this, bitNo)
        THEN Res("ok", this, FALSE, FALSE)
        ELSE
        LET childIndex == childIndexForBitNumber(this, bitNo)
            child == this.children[childIndex + 1]
        IN  IF isLeaf(child)
            THEN IF matchesTarget(child, target)
                 THEN Res("ok", removeChild(this, bitNo, childIndex), FALSE, TRUE)
                 ELSE Res("ok", this, FALSE, FALSE)
            ELSE
                 LET r == remove(child, target, shift + kBitShift)
                 IN  IF r.st # "ok" THEN Res(r.st, this, FALSE, FALSE)
                     ELSE IF ~r.ret THEN Res("ok", this, FALSE, FALSE)
                     ELSE IF r.node.bitmap = {}
                     THEN Res("ok", removeChild(this, bitNo, childIndex), FALSE, TRUE)
                     ELSE Res("ok", [this EXCEPT !.children[childIndex + 1] = r.node],
                              FALSE, TRUE)

-----------------------------------------------------------------------------
(* Encoder: value words, the Writer, and the helpers of varint.hh.         *)
(* Value.hh, Writer.hh, varint.hh, slice.hh and Encoder.hh are not part of *)
(* the sources at hand; what the encoder uses of them follows the format   *)
(* description (value words, tags, varints, slice comparison).             *)

\* Operations that returned normally in one run of SpecEnc.
MaxOps == 5

\* Operations that returned normally in one run of SpecEncSort.
MaxSortOps == 8

kNarrow == 2

kWide == 4

kMaxSharedStringSize == 15

kShortIntTag == 0

kIntTag == 1

kFloatTag == 2

kSpecialTag == 3

kStringTag == 4

kBinaryTag == 5

kArrayTag == 6

kDictTag == 7

kSpecialValueNull == 0

kSpecialValueFalse == 2

kSpecialValueTrue == 3

\* slice.buf == NULL
NullBuf == -1

Min(a, b) == IF a < b THEN a ELSE b

Zeros(n) == [i \in 1..n |-> 0]

\* A value is a 4-byte word; writing it narrow keeps its first 2 bytes.
value(tag, tiny, byte1) == <<tag * 16 + tiny, byte1, 0, 0>>

\* value(offset, width): a pointer word holding offset/2 in 15 or 31 bits.
valuePointer(offset, width) ==
    LET o == offset \div 2
    IN  IF width = kNarrow
        THEN <<128 + ((o \div 256) % 128), o % 256, 0, 0>>
        ELSE <<128 + ((o \div 16777216) % 128), (o \div 65536) % 256,
               (o \div 256) % 256, o % 256>>

isPointer(v) == v[1] >= 128

\* pointerValue<true>(): the byte offset held by a wide pointer word.
pointerValueWide(v) == 2 * (((v[1] - 128) * 16777216) + v[2] * 65536 + v[3] * 256 + v[4])

\* PutUVarInt: 7-bit groups, low group first, 0x80 on all but the last.
RECURSIVE PutUVarInt(_)
PutUVarInt(n) ==
    IF n < 128 THEN <<n>> ELSE <<128 + (n % 128)>> \o PutUVarInt(n \div 128)

\* PutIntOfLength: the fewest little-endian bytes that keep the value (and,
\* signed, its sign in the top bit of the last byte).
\* (the integers written here stay below 2^31, so 4 bytes always do).
IntFits(i, n, isUnsigned) ==
    \/ n >= 4
    \/ IF isUnsigned THEN i < 2 ^ (8 * n)
       ELSE i < 2 ^ (8 * n - 1) /\ i >= -(2 ^ (8 * n - 1))

IntLength(i, isUnsigned) ==
    CHOOSE n \in 1..4 :
        IntFits(i, n, isUnsigned) /\ \A m \in 1..(n - 1) : ~IntFits(i, m, isUnsigned)

\* Byte k (0-based) of the two's complement of i.
IntByte(i, k) ==
    IF i >= 0 THEN (i \div (2 ^ (8 * k))) % 256
    ELSE 255 - (((-i - 1) \div (2 ^ (8 * k))) % 256)

PutIntOfLength(i, isUnsigned) ==
    [k \in 1..IntLength(i, isUnsigned) |-> IntByte(i, k - 1)]

\* slice::compare: unsigned bytes in order, then the shorter first.
RECURSIVE compareBytes(_, _)
compareBytes(a, b) ==
    IF a = <<>> /\ b = <<>> THEN 0
    ELSE IF a = <<>> THEN -1
    ELSE IF b = <<>> THEN 1
    ELSE IF a[1] < b[1] THEN -1
    ELSE IF a[1] > b[1] THEN 1
    ELSE compareBytes(Tail(a), Tail(b))

\* Writer::length()
outLength(o) == IF o = <<>> THEN 0 ELSE o[Len(o)].pos + o[Len(o)].n

\* Writer::write(buf, size); the result is the stream position of the copy.
\* Binary data of 0xFFF8, 0xFFFA and 0xFFFC zero bytes: with its 4-byte
\* header, data that ends 2 bytes before, at and after 0x10000 - 2.
Data65528 == [i \in 1..65528 |-> 0]

Data65530 == [i \in 1..65530 |-> 0]

Data65532 == [i \in 1..65532 |-> 0]

BigDatas == {Data65528, Data65530, Data65532}

\* A long run of bytes that repeats with period 1 or 2 is kept as its
\* first period; outByte reads a segment's b cyclically.
outPacked(bytes) ==
    IF Len(bytes) > 16 /\ bytes \in BigDatas THEN <<bytes[1]>>
    ELSE IF Len(bytes) > 16 /\ \A i \in 2..Len(bytes) : bytes[i] = bytes[1]
    THEN <<bytes[1]>>
    ELSE IF Len(bytes) > 16 /\ \A i \in 3..Len(bytes) : bytes[i] = bytes[i - 2]
    THEN <<bytes[1], bytes[2]>>
    ELSE bytes

outWrite(o, bytes) ==
    IF bytes = <<>> THEN o
    ELSE Append(o, [pos |-> outLength(o), n |-> Len(bytes), b |-> outPacked(bytes)])

\* The byte at stream position p.
outByte(o, p) ==
    LET s == CHOOSE s \in {o[i] : i \in 1..Len(o)} : s.pos <= p /\ p < s.pos + s.n
    IN  s.b[((p - s.pos) % Len(s.b)) + 1]

outBytes(o, p, n) == [i \in 1..n |-> outByte(o, p + i - 1)]

-----------------------------------------------------------------------------
(* Encoder state.  The operators below work on a record E of the fields    *)
(* an operation changes, plus err (what the call threw, "none" if it       *)
(* returned) and ret (the slice _writeString / writeData return).          *)
(* Thrown string literals are named by their error kind:                   *)
(*   NeedKey    "need a key before this value"                             *)
(*   NoKeyHere  "need a value after a key", "not writing a dictionary"     *)
(*   Unbalanced "need a value", "ending wrong type of collection",         *)
(*              "unclosed array/dict", "top level must have only one value"*)
(*   assert     a failed assert()                                          *)

\* valueArray::reset(tag)
newFrame(tag) == [tag |-> tag, items |-> <<>>, keys |-> <<>>, wide |-> FALSE]

Enc ==
    [out |-> out, stack |-> stack, strings |-> strings,
     writingKey |-> writingKey, blockedOnKey |-> blockedOnKey,
     err |-> "none", ret |-> [buf |-> NullBuf, size |-> 0]]

Throw(E, kind) == [E EXCEPT !.err = kind]

Top(E) == E.stack[Len(E.stack)]

nextWritePosMutantNoPad(E) == E

\* size_t Encoder::nextWritePos()
nextWritePos(E) ==
    IF outLength(E.out) % 2 = 1 THEN [E EXCEPT !.out = outWrite(E.out, <<0>>)] ELSE E

addItemMutantNoCheck(E, v) ==
    LET E1 == IF E.writingKey THEN [E EXCEPT !.writingKey = FALSE]
              ELSE IF Top(E).tag = kDictTag
                   THEN [E EXCEPT !.blockedOnKey = TRUE, !.writingKey = TRUE]
                   ELSE E
    IN  [E1 EXCEPT !.stack[Len(E.stack)].items = Append(@, v)]

\* void Encoder::addItem(value v)
addItem(E, v) ==
    IF E.blockedOnKey THEN Throw(E, "NeedKey")
    ELSE
    LET E1 == IF E.writingKey THEN [E EXCEPT !.writingKey = FALSE]
              ELSE IF Top(E).tag = kDictTag
                   THEN [E EXCEPT !.blockedOnKey = TRUE, !.writingKey = TRUE]
                   ELSE E
    IN  [E1 EXCEPT !.stack[Len(E.stack)].items = Append(@, v)]

\* void Encoder::writePointer(size_t p)
writePointer(E, p) == addItem(E, valuePointer(p, kWide))

\* void Encoder::writeValue(tags tag, byte buf[], size_t size, bool canInline)
writeValue(E, tag, buf, canInline) ==
    LET size == Len(buf)
        tagged == [buf EXCEPT ![1] = buf[1] + tag * 16]    \* buf[0] |= tag << 4
    IN  IF canInline /\ size <= 4
        THEN LET E1 == addItem(E, tagged \o Zeros(4 - size))
             IN  IF E1.err # "none" THEN E1
                 ELSE IF size > 2 THEN [E1 EXCEPT !.stack[Len(E1.stack)].wide = TRUE]
                 ELSE E1
        ELSE LET E1 == nextWritePos(E)
                 E2 == writePointer(E1, outLength(E1.out))
             IN  IF E2.err # "none" THEN E2
                 ELSE [E2 EXCEPT !.out = outWrite(E2.out, tagged)]

writeNull(E) == addItem(E, value(kSpecialTag, kSpecialValueNull, 0))

writeBool(E, b) ==
    addItem(E, value(kSpecialTag, IF b THEN kSpecialValueTrue ELSE kSpecialValueFalse, 0))

\* void Encoder::writeInt(uint64_t i, bool isSmall, bool isUnsigned)
writeIntOfSize(E, i, isSmall, isUnsigned) ==
    IF isSmall
    THEN addItem(E, value(kShortIntTag, IntByte(i, 1) % 16, IntByte(i, 0)))
    ELSE LET bytes == PutIntOfLength(i, isUnsigned)
             head == (Len(bytes) - 1) + (IF isUnsigned THEN 8 ELSE 0)
             buf == <<head>> \o bytes
         IN  writeValue(E, kIntTag,
                        IF Len(buf) % 2 = 1 THEN buf \o <<0>> ELSE buf, TRUE)

writeIntMutantNoMin(E, i) == writeIntOfSize(E, i, i < 2048 /\ i > -2048, FALSE)

writeInt(E, i) == writeIntOfSize(E, i, i < 2048 /\ i >= -2048, FALSE)

writeUInt(E, i) == writeIntOfSize(E, i, i < 2048, TRUE)

\* slice Encoder::writeData(tags tag, slice s)
writeData(E, tag, s) ==
    LET size == Len(s)
        b0 == Min(size, 15)
    IN  IF size < kNarrow
        THEN LET E1 == writeValue(E, tag, <<b0>> \o s, TRUE)
             IN  [E1 EXCEPT !.ret = [buf |-> NullBuf, size |-> size]]
        ELSE LET buf == IF size >= 15 THEN <<b0>> \o PutUVarInt(size) ELSE <<b0>>
                 E1 == writeValue(E, tag, buf, FALSE)
             IN  IF E1.err # "none" THEN E1
                 ELSE [E1 EXCEPT !.out = outWrite(E1.out, s),
                                 !.ret = [buf |-> outLength(E1.out), size |-> size]]

_writeStringMutantNoIntern(E, s, asKey) == writeData(E, kStringTag, s)

\* slice Encoder::_writeString(slice s, bool asKey)
_writeString(E, s, asKey) ==
    IF uniqueStrings /\ Len(s) >= kNarrow /\ Len(s) <= kMaxSharedStringSize
    THEN IF s \in DOMAIN E.strings
         THEN LET entry == E.strings[s]
                  E1 == writePointer(E, entry.offset)
              IN  IF E1.err # "none" THEN E1
                  ELSE [E1 EXCEPT !.strings[s].usedAsKey = (@ \/ asKey),
                                  !.ret = [buf |-> entry.buf, size |-> Len(s)]]
         ELSE LET E1 == nextWritePos(E)
                  offset == outLength(E1.out)
                  E2 == writeData(E1, kStringTag, s)
              IN  IF E2.err # "none" THEN E2
                  ELSE IF E2.ret.buf # NullBuf
                  THEN [E2 EXCEPT !.strings =
                           (s :> [buf |-> E2.ret.buf, offset |-> offset,
                                  usedAsKey |-> asKey]) @@ @]
                  ELSE E2
    ELSE writeData(E, kStringTag, s)

writeString(E, s) == _writeString(E, s, FALSE)

writeBinary(E, s) == writeData(E, kBinaryTag, s)

\* void Encoder::writeKey(slice s)
writeKey(E, s) ==
    IF ~E.blockedOnKey THEN Throw(E, "NoKeyHere")
    ELSE LET E1 == _writeString([E EXCEPT !.blockedOnKey = FALSE], s, TRUE)
         IN  IF E1.err # "none" THEN E1
             ELSE IF sortKeys
             THEN [E1 EXCEPT !.stack[Len(E1.stack)].keys = Append(@, E1.ret)]
             ELSE E1

\* void Encoder::push(tags tag, size_t reserve)
push(E, tag) == [E EXCEPT !.stack = Append(@, newFrame(tag))]

beginArray(E) == push(E, kArrayTag)

beginDictionary(E) ==
    [push(E, kDictTag) EXCEPT !.writingKey = TRUE, !.blockedOnKey = TRUE]

\* The bytes slice keys[i] of a frame refers to (i from 1): a slice with a
\* null buf is resolved to the second byte of the item at index 2*(i-1);
\* any other slice points at the copy Writer::write made.
keyBytes(o, frame, i) ==
    LET k == frame.keys[i]
    IN  IF k.buf = NullBuf
        THEN SubSeq(frame.items[2 * i - 1], 2, 1 + k.size)
        ELSE outBytes(o, k.buf, k.size)

\* What qsort with compareKeysByIndex may leave in indices[]: every
\* ordering of the keys in which no key is followed by a smaller one.
sortedIndices(o, frame) ==
    LET n == Len(frame.keys)
    IN  {p \in [1..n -> 1..n] :
            /\ \A a, b \in 1..n : a # b => p[a] # p[b]
            /\ \A a \in 1..(n - 1) :
                 compareBytes(keyBytes(o, frame, p[a]), keyBytes(o, frame, p[a + 1])) <= 0}

sortDictMutantInverse(frame, indices) ==
    [i \in 1..Len(frame.items) |->
        IF i <= 2 * Len(frame.keys)
        THEN LET from == CHOOSE a \in 1..Len(frame.keys) : indices[a] = (i + 1) \div 2
             IN  frame.items[2 * from - (i % 2)]
        ELSE frame.items[i]]

\* void Encoder::sortDict(valueArray &items): the items rewritten by the
\* permutation indices.
sortDict(frame, indices) ==
    [i \in 1..Len(frame.items) |->
        IF i <= 2 * Len(frame.keys)
        THEN frame.items[2 * indices[(i + 1) \div 2] - (i % 2)]
        ELSE frame.items[i]]

\* void Encoder::checkPointerWidths(valueArray *items), on a frame that is
\* not wide yet, with base = nextWritePos().
checkPointerWidths(items, base) ==
    \E k \in 1..Len(items) :
        /\ isPointer(items[k])
        /\ (base + kNarrow * (k - 1)) - pointerValueWide(items[k]) >= 65536

\* assert(pos < base) in fixPointers
fixPointersAsserts(items, base, width) ==
    \A k \in 1..Len(items) :
        isPointer(items[k]) => pointerValueWide(items[k]) < base + width * (k - 1)

\* void Encoder::fixPointers(valueArray *items), with base = nextWritePos().
fixPointers(items, base, width) ==
    [k \in 1..Len(items) |->
        IF isPointer(items[k])
        THEN valuePointer((base + width * (k - 1)) - pointerValueWide(items[k]), width)
        ELSE items[k]]

\* The first width bytes of each word, one word after the other.
concatWords(words, width) ==
    [i \in 1..(width * Len(words)) |->
        words[((i - 1) \div width) + 1][((i - 1) % width) + 1]]

\* void Encoder::endCollection(tags tag); indices is what qsort left.
endCollection(E, tag, indices) ==
    IF Top(E).tag # tag THEN Throw(E, "Unbalanced")
    ELSE
    LET frame == Top(E)
        E1 == [E EXCEPT !.stack = SubSeq(@, 1, Len(@) - 1),
                        !.writingKey = FALSE, !.blockedOnKey = FALSE]
        doSort == sortKeys /\ tag = kDictTag /\ Len(frame.keys) >= 2
        items == IF doSort THEN sortDict(frame, indices) ELSE frame.items
        E2 == IF frame.wide THEN E1 ELSE nextWritePos(E1)
        wide == frame.wide \/ checkPointerWidths(items, outLength(E2.out))
        count == IF frame.tag = kDictTag THEN Len(items) \div 2 ELSE Len(items)
        inlineCount == Min(count, 2047)
        head == <<(inlineCount \div 256) + (IF wide THEN 8 ELSE 0), inlineCount % 256>>
        ext == IF count >= 4095 THEN PutUVarInt(count) ELSE <<>>
        buf == head \o ext \o (IF Len(ext) % 2 = 1 THEN <<0>> ELSE <<>>)
        E3 == writeValue(E2, frame.tag, buf, count = 0)
        E4 == nextWritePos(E3)
        width == IF wide THEN kWide ELSE kNarrow
        base == outLength(E4.out)
    IN  IF doSort /\ 2 * Len(frame.keys) > Len(frame.items) THEN Throw(E1, "ub")
        ELSE IF E3.err # "none" THEN E3
        ELSE IF ~fixPointersAsserts(items, base, width) THEN Throw(E4, "assert")
        ELSE IF count > 0
        THEN [E4 EXCEPT !.out = outWrite(@, concatWords(fixPointers(items, base, width), width))]
        ELSE E4

endArray(E, indices) == endCollection(E, kArrayTag, indices)

endDictionaryMutantNoCheck(E, indices) == endCollection(E, kDictTag, indices)

endDictionary(E, indices) ==
    IF ~E.writingKey THEN Throw(E, "Unbalanced")
    ELSE endCollection(E, kDictTag, indices)

endMutantIgnoreOpen(E) == Len(Top(E).items) > 1

\* The two throws of Encoder::end()
endThrows(E) == Len(E.stack) > 1 \/ Len(Top(E).items) > 1

\* void Encoder::end()
end(E) ==
    IF E.stack = <<>> THEN E
    ELSE IF endThrows(E) THEN Throw(E, "Unbalanced")
    ELSE
    LET frame == Top(E)
        E1 == IF Len(frame.items) > 0 THEN nextWritePos(E) ELSE E
        base == outLength(E1.out)
        width == IF frame.wide THEN kWide ELSE kNarrow
        rootWord == fixPointers(frame.items, base, width)[1]
        bytes == IF frame.wide
                 THEN rootWord \o SubSeq(valuePointer(4, kNarrow), 1, kNarrow)
                 ELSE SubSeq(rootWord, 1, kNarrow)
    IN  IF Len(frame.items) > 0 /\ ~fixPointersAsserts(frame.items, base, width)
        THEN Throw(E1, "assert")
        ELSE [E1 EXCEPT !.out = IF Len(frame.items) > 0 THEN outWrite(@, bytes) ELSE @,
                        !.stack = <<>>]

resetMutantKeepFlags(E) ==
    [E EXCEPT !.out = <<>>, !.stack = <<newFrame(kSpecialTag)>>, !.strings = <<>>]

\* void Encoder::reset()
reset(E) ==
    [E EXCEPT !.out = <<>>, !.stack = <<newFrame(kSpecialTag)>>, !.strings = <<>>,
              !.writingKey = FALSE, !.blockedOnKey = FALSE]

-----------------------------------------------------------------------------
(* The Encoder after construction.                                         *)

\* Encoder::Encoder(Writer&)
EncInit ==
    /\ out = <<>>
    /\ stack = <<newFrame(kSpecialTag)>>
    /\ strings = <<>>
    /\ uniqueStrings = TRUE
    /\ sortKeys = TRUE
    /\ writingKey = FALSE
    /\ blockedOnKey = FALSE
    /\ encOp = [op |-> "new", err |-> "none", done |-> "new"]
    /\ nops = 0

\* The constructor, followed by the setters of the two flags.
EncInitFlags ==
    /\ out = <<>>
    /\ stack = <<newFrame(kSpecialTag)>>
    /\ strings = <<>>
    /\ uniqueStrings \in BOOLEAN
    /\ sortKeys \in BOOLEAN
    /\ writingKey = FALSE
    /\ blockedOnKey = FALSE
    /\ encOp = [op |-> "new", err |-> "none", done |-> "new"]
    /\ nops = 0

-----------------------------------------------------------------------------
(* HAMTree itself.                                                         *)

HAMTree_count(r) == IF r # NoRoot THEN itemCount(r) ELSE 0

HAMTree_get(r, key) ==
    IF r # NoRoot
    THEN LET hash == KeyHash(key)
             leaf == find(r, hash)
         IN  IF leaf # NullSlot /\ matches(leaf, hash, key) THEN leaf.val ELSE NoVal
    ELSE NoVal

TreeInit ==
    /\ root = NoRoot
    /\ treeState = "ok"
    /\ treeOp = [op |-> "new", key |-> 0, val |-> NoVal, before |-> NoVal, ret |-> FALSE]

\* void HAMTree::insert(Key key, Val val)
HAMTree_insert(key, val) ==
    /\ treeState = "ok"
    /\ LET r0 == IF root = NoRoot THEN newInteriorNode(kMaxChildren) ELSE root
           r == insert(r0, LeafNode(KeyHash(key), key, val), 0)
       IN  /\ treeState' = (IF r.st = "ok" /\ r.grew THEN "dangling" ELSE r.st)
           /\ root' = (IF r.st = "ok" /\ ~r.grew THEN r.node ELSE r0)
    /\ treeOp' = [op |-> "insert", key |-> key, val |-> val,
                   before |-> HAMTree_get(root, key), ret |-> FALSE]
    /\ UNCHANGED encVars

\* bool HAMTree::remove(Key key)
HAMTree_remove(key) ==
    /\ treeState = "ok"
    /\ LET r == IF root = NoRoot THEN Res("ok", root, FALSE, FALSE)
                ELSE remove(root, Target(key), 0)
       IN  /\ treeState' = r.st
           /\ root' = (IF r.st = "ok" THEN r.node ELSE root)
           /\ treeOp' = [op |-> "remove", key |-> key, val |-> NoVal,
                          before |-> HAMTree_get(root, key), ret |-> r.ret]
    /\ UNCHANGED encVars

TreeNext ==
    \/ \E k \in Keys, v \in Vals : HAMTree_insert(k, v)
    \/ \E k \in Keys : HAMTree_remove(k)

\* A HAMTree beside an Encoder that is constructed and never used.
TreeSpecInit == TreeInit /\ EncInit

SpecTree == TreeSpecInit /\ [][TreeNext]_vars

\* The tree driven only by inserts of keys that were not inserted before.
InsertNewKey(k, v) == HAMTree_get(root, k) = NoVal /\ HAMTree_insert(k, v)

TreeInsertsNext == \E k \in Keys, v \in Vals : InsertNewKey(k, v)

SpecTreeInserts == TreeSpecInit /\ [][TreeInsertsNext]_vars

-----------------------------------------------------------------------------
(* The Encoder's operations as actions.  A call that throws keeps what it  *)
(* changed before the throw.  After end() only end() and reset() are       *)
(* called: _items is NULL then, and every other operation would use it.    *)

Aborted == encOp.err \in {"assert", "ub"}

Open == stack # <<>> /\ ~Aborted

EncStep(op, E) ==
    /\ out' = E.out
    /\ stack' = E.stack
    /\ strings' = E.strings
    /\ writingKey' = E.writingKey
    /\ blockedOnKey' = E.blockedOnKey
    /\ encOp' = [op |-> op, err |-> E.err,
                 done |-> IF E.err = "none" THEN op ELSE encOp.done]
    /\ nops' = IF E.err = "none" THEN nops + 1 ELSE nops
    /\ UNCHANGED <<uniqueStrings, sortKeys, treeVars>>

WriteNull == Open /\ EncStep("writeNull", writeNull(Enc))

WriteBool(b) == Open /\ EncStep("writeBool", writeBool(Enc, b))

WriteInt(i) == Open /\ EncStep("writeInt", writeInt(Enc, i))

WriteUInt(i) == Open /\ EncStep("writeUInt", writeUInt(Enc, i))

WriteString(s) == Open /\ EncStep("writeString", writeString(Enc, s))

WriteData(s) == Open /\ EncStep("writeData", writeBinary(Enc, s))

WriteKey(s) == Open /\ EncStep("writeKey", writeKey(Enc, s))

BeginArray == Open /\ EncStep("beginArray", beginArray(Enc))

BeginDictionary == Open /\ EncStep("beginDictionary", beginDictionary(Enc))

EndArray == Open /\ EncStep("endArray", endArray(Enc, <<>>))

EndDictionary ==
    /\ Open
    /\ \E indices \in (IF Top(Enc).tag = kDictTag /\ Len(Top(Enc).keys) >= 2
                          /\ 2 * Len(Top(Enc).keys) <= Len(Top(Enc).items)
                       THEN sortedIndices(out, Top(Enc)) ELSE {<<>>}) :
          EncStep("endDictionary", endDictionary(Enc, indices))

End == ~Aborted /\ EncStep("end", end(Enc))

Reset == ~Aborted /\ EncStep("reset", reset(Enc))

\* Arguments of the calls in SpecEnc.
Bools == {TRUE}

Ints == {16777216}

UInts == {7}

Strs == {<<97, 98>>}

Datas == {<<97>>}

KeyStrs == {<<97>>, <<97, 98>>}

\* SpecEnc: at most MaxOps calls return normally.
More == nops < MaxOps

EncNext ==
    \/ More /\ WriteNull
    \/ \E b \in Bools : More /\ WriteBool(b)
    \/ \E i \in Ints : More /\ WriteInt(i)
    \/ \E i \in UInts : More /\ WriteUInt(i)
    \/ \E s \in Strs : More /\ WriteString(s)
    \/ \E s \in Datas : More /\ WriteData(s)
    \/ \E s \in KeyStrs : More /\ WriteKey(s)
    \/ More /\ BeginArray
    \/ More /\ BeginDictionary
    \/ More /\ EndArray
    \/ More /\ EndDictionary
    \/ More /\ End
    \/ More /\ Reset

\* An Encoder beside a HAMTree that is constructed and never used.
EncSpecInit == TreeInit /\ EncInit

SpecEnc == EncSpecInit /\ [][EncNext]_vars

\* Arguments of the calls in SpecEncSort: keys that are inline (1 byte) and
\* out of line (2 bytes), with bytes on both sides of 0x80.
SortKeyStrs == {<<97>>, <<200>>, <<97, 98>>, <<97, 200>>}

SortStrs == {<<97, 98>>}

\* SpecEncSort: at most MaxSortOps calls return normally.
MoreSort == nops < MaxSortOps

EncSortNext ==
    \/ MoreSort /\ WriteNull
    \/ \E s \in SortStrs : MoreSort /\ WriteString(s)
    \/ \E s \in SortKeyStrs : MoreSort /\ WriteKey(s)
    \/ MoreSort /\ BeginDictionary
    \/ MoreSort /\ EndDictionary

EncSortInit == TreeInit /\ EncInitFlags

SpecEncSort == EncSortInit /\ [][EncSortNext]_vars

\* Arguments of the calls in SpecEncStr: strings of 2 bytes and one of 16.
Str16 == [i \in 1..16 |-> 120]

InternStrs == {<<97, 98>>, <<99, 100>>, Str16}

\* Operations that returned normally in one run of SpecEncStr.
MaxStrOps == 5

\* SpecEncStr: at most MaxStrOps calls return normally.
MoreStr == nops < MaxStrOps

EncStrNext ==
    \/ \E s \in InternStrs : MoreStr /\ WriteString(s)
    \/ \E s \in InternStrs : MoreStr /\ WriteKey(s)
    \/ MoreStr /\ BeginArray
    \/ MoreStr /\ BeginDictionary
    \/ MoreStr /\ EndArray
    \/ MoreStr /\ EndDictionary
    \/ MoreStr /\ Reset

SpecEncStr == EncSpecInit /\ [][EncStrNext]_vars

\* Arguments of the calls in SpecEncBig: an integer that is inlined in 4
\* bytes, a short string, and the data of BigDatas.
BigInts == {2048}

BigStrs == {<<97, 98>>}

\* Operations that returned normally in one run of SpecEncBig.
MaxBigOps == 4

\* SpecEncBig: at most MaxBigOps calls return normally.
MoreBig == nops < MaxBigOps

EncBigNext ==
    \/ MoreBig /\ WriteNull
    \/ \E i \in BigInts : MoreBig /\ WriteInt(i)
    \/ \E s \in BigStrs : MoreBig /\ WriteString(s)
    \/ \E s \in BigDatas : MoreBig /\ WriteData(s)
    \/ MoreBig /\ BeginArray
    \/ MoreBig /\ EndArray
    \/ MoreBig /\ End

SpecEncBig == EncSpecInit /\ [][EncBigNext]_vars

\* Arguments of the calls in SpecEncInt: the integers around the ends of
\* the 12-bit range.
EdgeInts == {2047, 2048, 2049, -2047, -2048, -2049}

\* Operations that returned normally in one run of SpecEncInt.
MaxIntOps == 3

\* SpecEncInt: at most MaxIntOps calls return normally.
MoreInt == nops < MaxIntOps

EncIntNext ==
    \/ \E i \in EdgeInts : MoreInt /\ WriteInt(i)
    \/ MoreInt /\ BeginArray
    \/ MoreInt /\ EndArray
    \/ MoreInt /\ End

SpecEncInt == EncSpecInit /\ [][EncIntNext]_vars

\* n calls of writeNull in a row, up to the first that throws.
RECURSIVE writeNullTimes(_, _)
writeNullTimes(E, n) ==
    IF n = 0 \/ E.err # "none" THEN E
    ELSE IF n = 1 THEN writeNull(E)
    ELSE writeNullTimes(writeNullTimes(E, n \div 2), n - (n \div 2))

WriteNullTimes(n) == Open /\ EncStep("writeNull", writeNullTimes(Enc, n))

\* Numbers of elements in SpecEncCount: around 0x07FF, the largest inline
\* count, and around 0x0FFF, the least count written as a varint.
Counts == {2047, 2048, 4094, 4095}

\* Steps that returned normally in one run of SpecEncCount.
MaxCountOps == 3

\* SpecEncCount: at most MaxCountOps steps return normally, a step being
\* one call or one row of writeNull calls.
MoreCount == nops < MaxCountOps

EncCountNext ==
    \/ \E n \in Counts : MoreCount /\ WriteNullTimes(n)
    \/ MoreCount /\ WriteNull
    \/ MoreCount /\ BeginArray
    \/ MoreCount /\ EndArray
    \/ MoreCount /\ End

SpecEncCount == EncSpecInit /\ [][EncCountNext]_vars

-----------------------------------------------------------------------------
(* Claims about the HAMTree.                                               *)

Present(r) == {k \in Keys : HAMTree_get(r, k) # NoVal}

OthersKept(k) == \A j \in Keys \ {k} : HAMTree_get(root', j) = HAMTree_get(root, j)

\* C1: in a run of inserts with pairwise distinct keys every insert returns,
\* and after it get of the inserted key gives the inserted value, get of
\* every key inserted earlier still gives its value and count() is the
\* number of keys inserted.
C1_InsertsRoundTrip ==
    [][ /\ treeState' = "ok"
        /\ HAMTree_get(root', treeOp'.key) = treeOp'.val
        /\ OthersKept(treeOp'.key)
        /\ HAMTree_count(root') = HAMTree_count(root) + 1
        /\ HAMTree_count(root') = Cardinality(Present(root')) ]_vars

\* C2: remove(k) of a key that is present returns true; afterwards get(k) is
\* none, count() is one less and every other key still has its value; once
\* every key is removed count() is 0.
C2_RemovePresent ==
    /\ [][ (treeOp'.op = "remove" /\ HAMTree_get(root, treeOp'.key) # NoVal)
           => /\ treeState' = "ok"
              /\ treeOp'.ret
              /\ HAMTree_get(root', treeOp'.key) = NoVal
              /\ HAMTree_count(root') = HAMTree_count(root) - 1
              /\ OthersKept(treeOp'.key) ]_vars
    /\ [](Present(root) = {} => HAMTree_count(root) = 0)

\* A present key was removed from a tree with nested interior nodes, and a
\* key that shared 24 hash bits with it is still there.
C2_Witness ==
    /\ treeOp.op = "remove" /\ treeOp.ret /\ treeOp.before # NoVal
    /\ treeOp.key = 1
    /\ HAMTree_get(root, 4) # NoVal
    /\ HAMTree_get(root, 2) # NoVal

\* The tree was emptied again after holding keys.
C2_WitnessEmptied ==
    /\ treeOp.op = "remove" /\ treeOp.ret /\ root # NoRoot /\ Present(root) = {}

\* C3: insert of a key that is present with another value makes get(key)
\* give the new value and changes neither count() nor get of any other key.
C3_Overwrite ==
    [][ (/\ treeOp'.op = "insert"
         /\ HAMTree_get(root, treeOp'.key) # NoVal
         /\ HAMTree_get(root, treeOp'.key) # treeOp'.val)
        => /\ treeState' = "ok"
           /\ HAMTree_get(root', treeOp'.key) = treeOp'.val
           /\ HAMTree_count(root') = HAMTree_count(root)
           /\ OthersKept(treeOp'.key) ]_vars

\* A key below the root level was overwritten while other keys were present.
C3_Witness ==
    /\ treeOp.op = "insert" /\ treeState = "ok"
    /\ treeOp.before # NoVal /\ treeOp.before # treeOp.val
    /\ treeOp.key = 4
    /\ HAMTree_get(root, 1) # NoVal
    /\ HAMTree_count(root) >= 3

\* C4: remove(k) of a key that is not in the tree returns false and leaves
\* the tree as it was: the same nodes, so the same count() and the same get
\* for every key.
C4_RemoveAbsent ==
    [][ (treeOp'.op = "remove" /\ HAMTree_get(root, treeOp'.key) = NoVal)
        => /\ treeState' = "ok"
           /\ ~treeOp'.ret
           /\ root' = root
           /\ HAMTree_count(root') = HAMTree_count(root)
           /\ \A j \in Keys : HAMTree_get(root', j) = HAMTree_get(root, j) ]_vars

\* remove of an absent key ended at a leaf that holds another key with the
\* same full hash.
C4_Witness ==
    /\ treeOp.op = "remove" /\ ~treeOp.ret /\ treeOp.before = NoVal
    /\ treeOp.key = 7
    /\ HAMTree_get(root, 1) # NoVal
    /\ HAMTree_get(root, 4) # NoVal

-----------------------------------------------------------------------------
(* Claims about the Encoder's call protocol (SpecEnc).                     *)

\* The last call that returned normally was writeKey: the key it wrote has
\* not received its value.
PendingKey == encOp.done = "writeKey"

TopIsDict == Open /\ Top(Enc).tag = kDictTag

\* The top open frame is a dictionary that expects a key.
ExpectsKey == TopIsDict /\ ~PendingKey

ValueWrites ==
    {"writeNull", "writeBool", "writeInt", "writeUInt", "writeString", "writeData"}

\* C5: where the top open frame is a dictionary that expects a key, each of
\* writeNull, writeBool, writeInt, writeUInt, writeString and writeData
\* fails with NeedKey and appends no item to any frame.
C5_ValueNeedsKey ==
    [][ (ExpectsKey /\ encOp'.op \in ValueWrites)
        => /\ encOp'.err = "NeedKey"
           /\ stack' = stack ]_vars

\* writeInt of a 4-byte integer was refused in a dictionary that already
\* holds one complete pair.
C5_Witness ==
    /\ encOp.op = "writeInt" /\ encOp.err = "NeedKey"
    /\ ExpectsKey
    /\ Len(Top(Enc).items) = 2

\* C6: where the top open frame is a dictionary that expects a key,
\* beginArray and beginDictionary fail with NeedKey and push no frame.
C6_BeginNeedsKey ==
    [][ (ExpectsKey /\ encOp'.op \in {"beginArray", "beginDictionary"})
        => /\ encOp'.err = "NeedKey"
           /\ stack' = stack ]_vars

\* C7: writeKey fails with NoKeyHere and appends no item where the top open
\* frame is not a dictionary (the top level, an open array, also an array
\* opened inside a dictionary) or is a dictionary waiting for the value of
\* a key already written.
C7_WriteKeyNoKeyHere ==
    [][ (/\ encOp'.op = "writeKey"
         /\ Open
         /\ (Top(Enc).tag # kDictTag \/ PendingKey))
        => /\ encOp'.err = "NoKeyHere"
           /\ stack' = stack ]_vars

\* C8: endArray fails with Unbalanced unless the top open frame is an array,
\* endDictionary fails with Unbalanced unless the top open frame is a
\* dictionary whose last written key has received its value; the failing
\* call pops no frame and writes nothing.
C8_EndWrongCollection ==
    [][ (/\ Open
         /\ \/ encOp'.op = "endArray" /\ Top(Enc).tag # kArrayTag
            \/ encOp'.op = "endDictionary" /\ (Top(Enc).tag # kDictTag \/ PendingKey))
        => /\ encOp'.err = "Unbalanced"
           /\ stack' = stack
           /\ out' = out ]_vars

\* endDictionary was refused in a dictionary whose second key has no value.
C8_Witness ==
    /\ encOp.op = "endDictionary" /\ encOp.err = "Unbalanced"
    /\ TopIsDict /\ PendingKey
    /\ Len(Top(Enc).items) = 3

\* endArray was refused with a dictionary on top.
C8_WitnessEndArray ==
    /\ encOp.op = "endArray" /\ encOp.err = "Unbalanced"
    /\ TopIsDict

\* C9: end fails with Unbalanced when an array or dictionary is still open
\* or more than one top-level value has been written, and succeeds when
\* exactly one top-level value has been written and every collection is
\* closed.
C9_End ==
    [][ (encOp'.op = "end" /\ Open)
        => IF Len(stack) > 1 \/ Len(stack[1].items) > 1
           THEN encOp'.err = "Unbalanced" /\ stack' = stack
           ELSE Len(stack[1].items) = 1 => (encOp'.err = "none" /\ stack' = <<>>) ]_vars

\* end was refused while a collection was open above a top level that holds
\* one value.
C9_Witness ==
    /\ encOp.op = "end" /\ encOp.err = "Unbalanced"
    /\ Len(stack) > 1
    /\ Len(stack[1].items) = 1

\* end was refused with two top-level values and nothing open.
C9_WitnessTwoValues ==
    /\ encOp.op = "end" /\ encOp.err = "Unbalanced"
    /\ Len(stack) = 1
    /\ Len(stack[1].items) = 2

\* end returned with one top-level value, a closed collection.
C9_WitnessSuccess ==
    /\ encOp.op = "end" /\ encOp.err = "none"
    /\ stack = <<>>
    /\ encOp.done = "end"
    /\ out # <<>>

-----------------------------------------------------------------------------
(* Claims about the order of emitted keys (SpecEncSort).  The emitted      *)
(* dictionary is read back from the Writer's bytes: the header the parent  *)
(* frame's new pointer word names, then the narrow or wide element words.  *)

\* The byte offset held by a narrow pointer word.
pointerValueNarrow(w) == 2 * ((w[1] - 128) * 256 + w[2])

\* The collection the last item of the top frame of st points to.
emittedAt(st) == pointerValueWide(st[Len(st)].items[Len(st[Len(st)].items)])

\* The "wide" flag of the collection header at p.
emittedWide(o, p) == (outByte(o, p) \div 8) % 2 = 1

emittedWidth(o, p) == IF emittedWide(o, p) THEN kWide ELSE kNarrow

\* Where element j (from 1) of the collection at p is, and its word.
emittedPos(o, p, j) == p + 2 + emittedWidth(o, p) * (j - 1)

emittedWord(o, p, j) == outBytes(o, emittedPos(o, p, j), emittedWidth(o, p))

\* Where the pointer that is element j of the collection at p points to.
emittedTarget(o, p, j) ==
    emittedPos(o, p, j)
      - (IF emittedWide(o, p) THEN pointerValueWide(emittedWord(o, p, j))
         ELSE pointerValueNarrow(emittedWord(o, p, j)))

\* The bytes of key i (from 1) of the dictionary at p, element 2i-1: an
\* inline string, or a pointer back to a string header.
emittedKey(o, p, i) ==
    LET w == emittedWord(o, p, 2 * i - 1)
    IN  IF isPointer(w)
        THEN LET t == emittedTarget(o, p, 2 * i - 1)
             IN  outBytes(o, t + 1, outByte(o, t) % 16)
        ELSE SubSeq(w, 2, 1 + (w[1] % 16))

\* a sorts strictly before b: unsigned bytes in order, a proper prefix first.
BytesLess(a, b) ==
    \E k \in 0..Min(Len(a), Len(b)) :
        /\ \A m \in 1..k : a[m] = b[m]
        /\ \/ k = Len(a) /\ k < Len(b)
           \/ k < Len(a) /\ k < Len(b) /\ a[k + 1] < b[k + 1]

\* The frame holds keys each followed by its value, and no key twice.
DistinctKeyPairs(o, frame) ==
    /\ frame.tag = kDictTag
    /\ Len(frame.keys) >= 1
    /\ Len(frame.items) = 2 * Len(frame.keys)
    /\ \A a, b \in 1..Len(frame.keys) :
         a # b => keyBytes(o, frame, a) # keyBytes(o, frame, b)

\* C10: with sortKeys on, for a dictionary of pairwise distinct keys
\* (inline, out-of-line and interned keys mixed) the keys of the emitted
\* dictionary are in strictly ascending unsigned byte-lexicographic order,
\* whatever the order of the writeKey calls.
C10_SortedKeys ==
    [][ (/\ encOp'.op = "endDictionary" /\ encOp'.err = "none"
         /\ sortKeys
         /\ Open /\ DistinctKeyPairs(out, Top(Enc)))
        => LET n == Len(Top(Enc).keys)
               p == emittedAt(stack')
           IN  /\ Len(stack') = Len(stack) - 1
               /\ \A i \in 1..(n - 1) :
                    BytesLess(emittedKey(out', p, i), emittedKey(out', p, i + 1)) ]_vars

\* A dictionary of three keys was emitted: an inline key, then two keys
\* held by pointers of which the first points to the string written later,
\* so the pairs were moved; that string was interned when it was written as
\* the value of the inline key, and key and value point to the one copy.
C10_Witness ==
    /\ encOp.op = "endDictionary" /\ encOp.err = "none"
    /\ sortKeys /\ uniqueStrings
    /\ Len(stack) = 1 /\ Len(stack[1].items) = 1
    /\ isPointer(stack[1].items[1])
    /\ LET p == emittedAt(stack)
       IN  /\ outByte(out, p + 1) = 3
           /\ emittedKey(out, p, 1) = <<97>>
           /\ emittedKey(out, p, 2) = <<97, 98>>
           /\ emittedKey(out, p, 3) = <<97, 200>>
           /\ ~isPointer(emittedWord(out, p, 1))
           /\ isPointer(emittedWord(out, p, 2))
           /\ isPointer(emittedWord(out, p, 3))
           /\ isPointer(emittedWord(out, p, 5))
           /\ emittedTarget(out, p, 3) = emittedTarget(out, p, 2)
           /\ emittedTarget(out, p, 3) > emittedTarget(out, p, 5)

\* The same three keys emitted without interning.
C10_WitnessNoIntern ==
    /\ encOp.op = "endDictionary" /\ encOp.err = "none"
    /\ sortKeys /\ ~uniqueStrings
    /\ Len(stack) = 1 /\ Len(stack[1].items) = 1
    /\ isPointer(stack[1].items[1])
    /\ LET p == emittedAt(stack)
       IN  /\ outByte(out, p + 1) = 3
           /\ emittedKey(out, p, 1) = <<97, 98>>
           /\ emittedKey(out, p, 2) = <<97, 200>>
           /\ emittedKey(out, p, 3) = <<200>>
           /\ emittedTarget(out, p, 1) > emittedTarget(out, p, 3)

-----------------------------------------------------------------------------
(* Claims about string interning (SpecEncStr).                             *)

\* What writeData puts in front of the bytes of an out-of-line string.
stringHeader(s) ==
    <<kStringTag * 16 + Min(Len(s), 15)>>
      \o (IF Len(s) >= 15 THEN PutUVarInt(Len(s)) ELSE <<>>)

\* The output holds the string s, header first, at position p.
StringAt(o, p, s) ==
    LET h == stringHeader(s)
    IN  /\ p + Len(h) + Len(s) <= outLength(o)
        /\ outBytes(o, p, Len(h)) = h
        /\ outBytes(o, p + Len(h), Len(s)) = s

\* The positions of the copies of s in the output.
Copies(o, s) == {p \in 0..(outLength(o) - 1) : StringAt(o, p, s)}

\* The last item of the top frame of st.
lastItem(st) == st[Len(st)].items[Len(st[Len(st)].items)]

\* A writeString(s) or writeKey(s) that returned normally left one copy of
\* s in the output, and the item it appended points to that copy.
WrittenOnce(s) ==
    ((WriteString(s) \/ WriteKey(s)) /\ encOp'.err = "none" /\ uniqueStrings)
    => /\ Cardinality(Copies(out', s)) = 1
       /\ Copies(out, s) \subseteq Copies(out', s)
       /\ isPointer(lastItem(stack'))
       /\ pointerValueWide(lastItem(stack')) \in Copies(out', s)

\* C11 as stated: with uniqueStrings on every out-of-line string (2 bytes
\* or more) written by writeString or writeKey is in the output once, and
\* each later occurrence is a pointer to that first copy.
C11_EveryStringOnce ==
    [][ \A s \in InternStrs : Len(s) >= kNarrow => WrittenOnce(s) ]_vars

\* C11 for the strings the encoder interns: with uniqueStrings on every
\* string of kNarrow to kMaxSharedStringSize bytes written by writeString or
\* writeKey is in the output once, each later occurrence is a pointer to
\* that first copy and writes no byte.
C11_SharedStringOnce ==
    [][ \A s \in InternStrs :
          (Len(s) >= kNarrow /\ Len(s) <= kMaxSharedStringSize)
          => /\ WrittenOnce(s)
             /\ ((WriteString(s) \/ WriteKey(s)) /\ encOp'.err = "none"
                 /\ Copies(out, s) # {})
                => out' = out ]_vars

\* writeKey of a string that writeString had put in the output two calls
\* before returned: the one copy is not at the end of the output, and two
\* items of different frames point to it.
C11_Witness ==
    /\ encOp.op = "writeKey" /\ encOp.err = "none"
    /\ Len(stack) = 3
    /\ Len(stack[2].items) = 2
    /\ Copies(out, <<99, 100>>) # {}
    /\ Cardinality(Copies(out, <<97, 98>>)) = 1
    /\ stack[2].items[1] = lastItem(stack)
    /\ isPointer(lastItem(stack))
    /\ pointerValueWide(lastItem(stack)) \in Copies(out, <<97, 98>>)
    /\ pointerValueWide(lastItem(stack)) + 3 < outLength(out)

-----------------------------------------------------------------------------
(* Claims about the emitted pointers and positions (SpecEnc).              *)

\* Every pointer among the n element words of the collection at p refers
\* to a position before its own.
ElementsPointBack(o, p, n) ==
    \A j \in 1..n :
        isPointer(emittedWord(o, p, j))
        => /\ emittedTarget(o, p, j) >= 0
           /\ emittedTarget(o, p, j) < emittedPos(o, p, j)

\* The trailer of o, its last 2 bytes, and where it is.
trailerPos(o) == outLength(o) - kNarrow

trailer(o) == outBytes(o, trailerPos(o), kNarrow)

\* If the trailer is a pointer it refers to a position before its own.
TrailerPointsBack(o) ==
    isPointer(trailer(o))
    => /\ trailerPos(o) - pointerValueNarrow(trailer(o)) >= 0
       /\ trailerPos(o) - pointerValueNarrow(trailer(o)) < trailerPos(o)

\* C12: every pointer word that endArray, endDictionary or end emits refers
\* to a stream position strictly less than the position the pointer word
\* is written at, and assert(pos < base) in fixPointers never fails.
C12_PointersPointBack ==
    [][ (encOp'.op \in {"endArray", "endDictionary", "end"} /\ Open)
        => /\ encOp'.err # "assert"
           /\ (encOp'.err = "none" /\ encOp'.op # "end" /\ isPointer(lastItem(stack')))
              => ElementsPointBack(out', emittedAt(stack'), Len(Top(Enc).items))
           /\ (encOp'.err = "none" /\ encOp'.op = "end" /\ Len(stack[1].items) = 1)
              => TrailerPointsBack(out') ]_vars

\* assert(pos < base) in fixPointers holds in every endArray,
\* endDictionary and end.
FixPointersAssertHolds ==
    [][ (encOp'.op \in {"endArray", "endDictionary", "end"} /\ Open)
        => encOp'.err # "assert" ]_vars

\* An array was emitted whose two elements are a pointer to a string and a
\* pointer to an integer written after it.
C12_Witness ==
    /\ encOp.op = "endArray" /\ encOp.err = "none"
    /\ Len(stack) = 1 /\ Len(stack[1].items) = 1
    /\ isPointer(stack[1].items[1])
    /\ LET p == emittedAt(stack)
       IN  /\ outByte(out, p + 1) = 2
           /\ isPointer(emittedWord(out, p, 1))
           /\ isPointer(emittedWord(out, p, 2))
           /\ StringAt(out, emittedTarget(out, p, 1), <<97, 98>>)
           /\ outByte(out, emittedTarget(out, p, 2)) \div 16 = kIntTag
           /\ emittedTarget(out, p, 1) < emittedTarget(out, p, 2)

\* end wrote a trailer that is a pointer to an out-of-line root.
C12_WitnessTrailer ==
    /\ encOp.op = "end" /\ encOp.err = "none"
    /\ out # <<>>
    /\ isPointer(trailer(out))
    /\ trailerPos(out) - pointerValueNarrow(trailer(out)) = 0

\* The byte nextWritePos writes to reach an even position.
isPadding(seg) == seg.n = 1 /\ seg.b = <<0>> /\ seg.pos % 2 = 1

\* The segments a step wrote that are not padding, in order.
wordSegments(o, o2) ==
    SelectSeq(SubSeq(o2, Len(o) + 1, Len(o2)), LAMBDA seg : ~isPadding(seg))

\* The segments of a step that start a value word: for a string or binary
\* write the header (the payload follows it in a segment of its own), for
\* every other call each segment.
valueWordSegments(op, o, o2) ==
    LET w == wordSegments(o, o2)
    IN  IF op \in {"writeString", "writeData", "writeKey"} /\ w # <<>>
        THEN <<w[1]>>
        ELSE w

\* C13: every value word of the output (out-of-line scalar or string
\* header, collection header, collection element words, trailer) starts at
\* an even stream offset.
C13_EvenOffsets ==
    [][ encOp'.op # "reset"
        => LET w == valueWordSegments(encOp'.op, out, out')
           IN  \A k \in 1..Len(w) : w[k].pos % 2 = 0 ]_vars

\* An array was emitted after a string of 2 bytes, whose header and bytes
\* end at an odd position: one byte of padding precedes the array header,
\* which is at position 4, and the element word is at 6.
C13_Witness ==
    /\ encOp.op = "endArray" /\ encOp.err = "none"
    /\ Len(stack) = 1 /\ Len(stack[1].items) = 1
    /\ isPointer(stack[1].items[1])
    /\ \E k \in 1..Len(out) : isPadding(out[k]) /\ out[k].pos = 3
    /\ emittedAt(stack) = 4
    /\ outByte(out, 4) \div 16 = kArrayTag
    /\ outLength(out) = 8

-----------------------------------------------------------------------------
(* Claims about the trailer, the integer forms and the collection header.  *)

\* The trailer of o locates the root w of a top-level frame (wide: w is an
\* inline value of 4 bytes): it is w itself, or a pointer to the 4 bytes
\* of w, or a pointer to what the pointer w refers to.
TrailerIsRoot(w, wide, o) ==
    /\ outLength(o) >= kNarrow
    /\ IF ~isPointer(trailer(o))
       THEN ~wide /\ ~isPointer(w) /\ trailer(o) = SubSeq(w, 1, kNarrow)
       ELSE LET t == trailerPos(o) - pointerValueNarrow(trailer(o))
            IN  IF isPointer(w) THEN t = pointerValueWide(w)
                ELSE wide /\ t >= 0 /\ outBytes(o, t, kWide) = w

\* C14: after a successful end that follows exactly one top-level value the
\* last 2 bytes of the output are a narrow value word that is the root or a
\* pointer whose target is the root, for every kind and size of root.
C14_TrailerIsRoot ==
    [][ (/\ encOp'.op = "end" /\ encOp'.err = "none"
         /\ Open /\ Len(stack[1].items) = 1)
        => TrailerIsRoot(stack[1].items[1], stack[1].wide, out') ]_vars

\* C15: end on an encoder into which nothing was written produces an
\* output of 2 bytes, the narrow special-null value word.
C15_EmptyDocument ==
    [][ (/\ encOp'.op = "end" /\ Open
         /\ out = <<>> /\ stack = <<newFrame(kSpecialTag)>>)
        => /\ encOp'.err = "none"
           /\ outLength(out') = kNarrow
           /\ trailer(out') = SubSeq(value(kSpecialTag, kSpecialValueNull, 0), 1, kNarrow) ]_vars

\* The word w is the short form of i: tag 0 and i in 12 bits, two's
\* complement, in a word whose other 2 bytes are 0.
ShortIntForm(w, i) ==
    LET v == (w[1] % 16) * 256 + w[2]
    IN  /\ w[1] \div 16 = kShortIntTag
        /\ (IF v >= 2048 THEN v - 4096 ELSE v) = i
        /\ w[3] = 0 /\ w[4] = 0

\* The word w is the full form of i, inline: tag 1, a size byte holding
\* the number of bytes less one, then i in that many bytes, low byte first.
FullIntForm(w, i) ==
    LET len == (w[1] % 8) + 1
        v == IF len = 1 THEN w[2]
             ELSE IF len = 2 THEN w[2] + 256 * w[3]
             ELSE w[2] + 256 * w[3] + 65536 * w[4]
    IN  /\ w[1] \div 16 = kIntTag
        /\ len <= 3
        /\ (IF v >= 2 ^ (8 * len - 1) THEN v - 2 ^ (8 * len) ELSE v) = i

\* writeInt(i) returned and the item it appended is in the short form
\* (short = TRUE) or in the full form.
WroteIntAs(i, short) ==
    (WriteInt(i) /\ encOp'.err = "none")
    => /\ Len(Top(Enc).items) + 1 = Len(stack'[Len(stack')].items)
       /\ IF short THEN ShortIntForm(lastItem(stack'), i)
          ELSE FullIntForm(lastItem(stack'), i)

\* C16 as stated: writeInt emits the short form for 2047 and -2047 and
\* the full form for 2048 and -2048.
C16_IntFormsAsStated ==
    [][ /\ WroteIntAs(2047, TRUE) /\ WroteIntAs(-2047, TRUE)
        /\ WroteIntAs(2048, FALSE) /\ WroteIntAs(-2048, FALSE) ]_vars

\* C16 with the lower end of the short range at -2048: writeInt emits the
\* short form for 2047, -2047 and -2048, and the full form for 2048,
\* 2049 and -2049.
C16_IntForms ==
    [][ /\ WroteIntAs(2047, TRUE) /\ WroteIntAs(-2047, TRUE)
        /\ WroteIntAs(-2048, TRUE)
        /\ WroteIntAs(2048, FALSE) /\ WroteIntAs(2049, FALSE)
        /\ WroteIntAs(-2049, FALSE) ]_vars

\* -2048 was written in the short form, 0x08 0x00, after 2048 in the full
\* form, which made the array wide.
C16_Witness ==
    /\ encOp.op = "writeInt" /\ encOp.err = "none"
    /\ Len(stack) = 2
    /\ Top(Enc).wide
    /\ Top(Enc).items = << <<17, 0, 8, 0>>, <<8, 0, 0, 0>> >>

\* The inline count field of the collection header at p.
emittedInlineCount(o, p) == (outByte(o, p) % 8) * 256 + outByte(o, p + 1)

\* GetUVarInt: the number held by the varint at p.
RECURSIVE emittedUVarInt(_, _)
emittedUVarInt(o, p) ==
    IF outByte(o, p) < 128 THEN outByte(o, p)
    ELSE (outByte(o, p) - 128) + 128 * emittedUVarInt(o, p + 1)

\* The number of elements of the frame: pairs for a dictionary.
frameCount(frame) ==
    IF frame.tag = kDictTag THEN Len(frame.items) \div 2 ELSE Len(frame.items)

\* C17: for every collection closed by endArray or endDictionary the
\* element count can be recovered from the emitted header: a count of at
\* most 0x0FFE is the inline count field, and a count of 0x0FFF or more is
\* followed by a varint holding the full count.
C17_CountRecoverable ==
    [][ (/\ encOp'.op \in {"endArray", "endDictionary"} /\ encOp'.err = "none"
         /\ Open /\ isPointer(lastItem(stack')))
        => LET p == emittedAt(stack')
               count == frameCount(Top(Enc))
           IN  IF count <= 4094
               THEN emittedInlineCount(out', p) = count
               ELSE emittedUVarInt(out', p + 2) = count ]_vars

\* What the header does hold: the count itself up to 0x07FF, 0x07FF for
\* every greater count, and after it the count as a varint from 0x0FFF.
CountInHeader ==
    [][ (/\ encOp'.op \in {"endArray", "endDictionary"} /\ encOp'.err = "none"
         /\ Open /\ isPointer(lastItem(stack')))
        => LET p == emittedAt(stack')
               count == frameCount(Top(Enc))
           IN  /\ emittedInlineCount(out', p) = Min(count, 2047)
               /\ count >= 4095 => emittedUVarInt(out', p + 2) = count ]_vars

\* C18: whenever endArray or endDictionary emits a collection narrow, every
\* pointer among its element words is less than 0x10000 bytes away from
\* its target, measured from the position the element word is written at;
\* a collection holding a pointer at or beyond that distance is emitted
\* wide.  (Stated for frames whose items are emitted in the order written.)
C18_NarrowWithinReach ==
    [][ (/\ encOp'.op \in {"endArray", "endDictionary"} /\ encOp'.err = "none"
         /\ Open /\ Len(Top(Enc).keys) < 2
         /\ isPointer(lastItem(stack')))
        => LET p == emittedAt(stack')
               items == Top(Enc).items
           IN  ~emittedWide(out', p)
               => \A k \in 1..Len(items) :
                    isPointer(items[k])
                    => emittedPos(out', p, k) - pointerValueWide(items[k]) < 65536 ]_vars

\* An array was emitted wide because of a pointer 0x10000 bytes or more
\* away, and no item of it is an inline value of 4 bytes.
C18_WitnessPromoted ==
    /\ encOp.op = "endArray" /\ encOp.err = "none"
    /\ Len(stack) = 1 /\ Len(stack[1].items) = 1
    /\ isPointer(stack[1].items[1])
    /\ LET p == emittedAt(stack)
       IN  /\ emittedWide(out, p)
           /\ outByte(out, p + 1) = 1
           /\ isPointer(emittedWord(out, p, 1))
           /\ emittedTarget(out, p, 1) = 0
           /\ emittedPos(out, p, 1) >= 65536

-----------------------------------------------------------------------------
(* Claims about the depth assertion of the tree (SpecTree).                *)

\* The keys the tree holds.
keysIn(r) == {k \in Keys : HAMTree_get(r, k) # NoVal}

\* C20: insert never trips the depth assertion when the 32-bit hash of the
\* inserted key differs from the hash of every key already in the tree.
C20_AssertOnlyOnEqualHash ==
    [][ (/\ treeOp'.op = "insert"
         /\ \A k \in keysIn(root) : KeyHash(k) # KeyHash(treeOp'.key))
        => treeState' # "assert" ]_vars

\* The assertion fails exactly when the new key agrees with a key of the
\* tree in the low 30 bits of the hash, the 5 levels of 6 bits each.
C20_EqualHashAsserts ==
    [][ (/\ treeOp'.op = "insert"
         /\ treeOp'.key \notin keysIn(root)
         /\ \E k \in keysIn(root) : KeyHash(k) % (2 ^ 30) = KeyHash(treeOp'.key) % (2 ^ 30))
        => treeState' = "assert" ]_vars

-----------------------------------------------------------------------------
(* Claims about the shape of the tree (SpecTree).                          *)

\* The bit number of the child held in slot i (counted from 1) of node n.
bitNumberOfSlot(n, i) == CHOOSE b \in n.bitmap : childIndexForBitNumber(n, b) = i - 1

isInterior(n) == n.capacity > 0

\* The interior nodes below node n, each with the shift of its level and the
\* bit numbers that lead to it from the root.
RECURSIVE interiorBelow(_, _, _)
interiorBelow(n, shift, path) ==
    UNION { LET c == n.children[i]
                p == Append(path, bitNumberOfSlot(n, i))
            IN  IF isInterior(c)
                THEN {[node |-> c, shift |-> shift + kBitShift, path |-> p]}
                         \cup interiorBelow(c, shift + kBitShift, p)
                ELSE {}
            : i \in 1..childCount(n) }

nonRootNodes(r) == IF r = NoRoot THEN {} ELSE interiorBelow(r, 0, <<>>)

\* C21: after every completed insert or remove no non-root interior node
\* has fewer than 2 children.
C21_NoSingleChild ==
    treeState = "ok" => \A e \in nonRootNodes(root) : childCount(e.node) >= 2

\* What remove does keep: no non-root interior node is left without a child.
C21_NoEmptyNode ==
    treeState = "ok" => \A e \in nonRootNodes(root) : childCount(e.node) >= 1

\* Every interior node of the tree, the root included.
allNodes(r) ==
    IF r = NoRoot THEN {}
    ELSE {[node |-> r, shift |-> 0, path |-> <<>>]} \cup interiorBelow(r, 0, <<>>)

\* The leaves held in or below a child slot.
RECURSIVE leavesBelow(_)
leavesBelow(c) ==
    IF isLeaf(c) THEN {c}
    ELSE IF isInterior(c) THEN UNION {leavesBelow(c.children[i]) : i \in 1..childCount(c)}
    ELSE {}

\* C22: after any sequence of insert and remove every interior node has
\* popcount(bitmap) <= capacity <= 64, live children in its first
\* popcount(bitmap) slots and, for each set bit i, under the child at index
\* popcount(bitmap & ((1<<i)-1)) only leaves whose hash has slice i at the
\* node's level; a node (the node reached by the same path) grows by
\* exactly 1, only when an insert finds it full, and never changes capacity
\* on remove.
C22_NodesWellFormed ==
    /\ [](treeState = "ok"
          => \A e \in allNodes(root) :
                LET n == e.node
                IN  /\ childCount(n) <= n.capacity
                    /\ n.capacity <= kMaxChildren
                    /\ \A i \in 1..childCount(n) :
                          isLeaf(n.children[i]) \/ isInterior(n.children[i])
                    /\ \A b \in n.bitmap :
                          \A l \in leavesBelow(n.children[childIndexForBitNumber(n, b) + 1]) :
                             childBitNumber(l.hash, e.shift) = b)
    /\ [][ treeState' = "ok"
           => \A e \in allNodes(root) :
                 \A f \in {g \in allNodes(root') : g.path = e.path} :
                    \/ f.node.capacity = e.node.capacity
                    \/ /\ f.node.capacity = e.node.capacity + 1
                       /\ treeOp'.op = "insert"
                       /\ childCount(e.node) = e.node.capacity ]_vars

\* The node at shift 24, created with 2 slots, was found full by an insert
\* and now holds 3 children in 3 slots.
C22_Witness ==
    /\ treeState = "ok" /\ treeOp.op = "insert"
    /\ \E e \in nonRootNodes(root) :
          e.shift = 24 /\ e.node.capacity = 3 /\ childCount(e.node) = 3

\* A remove left a grown node with its 3 slots and 2 children.
C22_WitnessRemove ==
    /\ treeState = "ok" /\ treeOp.op = "remove" /\ treeOp.ret
    /\ \E e \in nonRootNodes(root) :
          e.shift = 24 /\ e.node.capacity = 3 /\ childCount(e.node) = 2

-----------------------------------------------------------------------------
(* Claims about the pairs of an emitted dictionary (SpecEncSort).          *)

\* Element 2i-1 of the dictionary at p is a string: an inline string word,
\* or a pointer to a string header.
emittedIsKey(o, p, i) ==
    LET w == emittedWord(o, p, 2 * i - 1)
    IN  IF isPointer(w)
        THEN outByte(o, emittedTarget(o, p, 2 * i - 1)) \div 16 = kStringTag
        ELSE w[1] \div 16 = kStringTag

\* C23: every dictionary emitted by a successful endDictionary has exactly
\* 2N element words, N the number of successful writeKey calls made while
\* it was the top frame (the length of the frame's keys when sortKeys is
\* on), and the word at each even index is a key, a string.  W is the
\* number of element words written after the header, the last thing
\* written; none when the dictionary was added inline, as empty.
C23_DictPairs ==
    [][ (encOp'.op = "endDictionary" /\ encOp'.err = "none" /\ Open)
        => LET q == emittedAt(stack')
               W == IF isPointer(lastItem(stack'))
                    THEN (outLength(out') - (q + 2)) \div emittedWidth(out', q)
                    ELSE 0
           IN  /\ sortKeys => W = 2 * Len(Top(Enc).keys)
               /\ W > 0 => /\ W = 2 * emittedInlineCount(out', q)
                           /\ \A i \in 1..emittedInlineCount(out', q) :
                                 emittedIsKey(out', q, i) ]_vars

\* The item is the word writeKey added for the key slice k: an inline
\* string of k.size bytes, or a pointer to the header before k.buf.
keyMatches(k, item) ==
    IF k.buf = NullBuf
    THEN ~isPointer(item) /\ item[1] = kStringTag * 16 + k.size
    ELSE isPointer(item) /\ pointerValueWide(item) + 1 = k.buf

\* The index in frame.items of the word the i-th writeKey added: the first
\* such word after the value of the key before it.
RECURSIVE keyPos(_, _)
keyPos(frame, i) ==
    LET from == IF i = 1 THEN 1 ELSE keyPos(frame, i - 1) + 2
        at == {j \in from..Len(frame.items) : keyMatches(frame.keys[i], frame.items[j])}
    IN  IF at = {} THEN Len(frame.items) + 1
        ELSE CHOOSE j \in at : \A m \in at : j <= m

\* Element j of the collection at p as the item it was before fixPointers:
\* a pointer holds its target again, an inline word its 4 bytes.
emittedItem(o, p, j) ==
    LET w == emittedWord(o, p, j)
    IN  IF isPointer(w) THEN valuePointer(emittedTarget(o, p, j), kWide)
        ELSE w \o Zeros(4 - Len(w))

\* C24: with sortKeys on, the (key, value) pairs of the emitted dictionary
\* are the pairs written, each key with the value written after it, in
\* some order; with sortKeys off the items are emitted in write order.
C24_PairsPermuted ==
    [][ (/\ encOp'.op = "endDictionary" /\ encOp'.err = "none"
         /\ Open /\ isPointer(lastItem(stack')))
        => LET frame == Top(Enc)
               q == emittedAt(stack')
               n == emittedInlineCount(out', q)
           IN  IF sortKeys
               THEN /\ n = Len(frame.keys)
                    /\ \E perm \in [1..n -> 1..n] :
                          /\ \A a, b \in 1..n : a # b => perm[a] # perm[b]
                          /\ \A i \in 1..n :
                                LET j == keyPos(frame, perm[i])
                                IN  /\ j + 1 <= Len(frame.items)
                                    /\ emittedItem(out', q, 2 * i - 1) = frame.items[j]
                                    /\ emittedItem(out', q, 2 * i) = frame.items[j + 1]
               ELSE \A j \in 1..Len(frame.items) :
                       emittedItem(out', q, j) = frame.items[j] ]_vars

\* A dictionary whose items are its keys, each followed by its value, is
\* emitted as those pairs in the order of the sort: whole pairs are moved.
C24_AlignedPairsPermuted ==
    [][ (/\ encOp'.op = "endDictionary" /\ encOp'.err = "none"
         /\ sortKeys
         /\ Open /\ isPointer(lastItem(stack'))
         /\ Len(Top(Enc).items) = 2 * Len(Top(Enc).keys)
         /\ \A i \in 1..Len(Top(Enc).keys) :
               keyMatches(Top(Enc).keys[i], Top(Enc).items[2 * i - 1]))
        => LET frame == Top(Enc)
               q == emittedAt(stack')
               n == Len(frame.keys)
           IN  /\ emittedInlineCount(out', q) = n
               /\ \E perm \in [1..n -> 1..n] :
                     /\ \A a, b \in 1..n : a # b => perm[a] # perm[b]
                     /\ \A i \in 1..n :
                           /\ emittedItem(out', q, 2 * i - 1) = frame.items[2 * perm[i] - 1]
                           /\ emittedItem(out', q, 2 * i) = frame.items[2 * perm[i]] ]_vars

-----------------------------------------------------------------------------
(* Claims about the targets of the emitted pointers (SpecEncBig).          *)

\* C25: for every pointer element word emitted by endArray, endDictionary
\* or end, the position of the word minus the offset it holds is the
\* absolute offset recorded when the item was added, whatever the width of
\* the collection and whatever order the key sort gave its items.
C25_PointersKeepTargets ==
    [][ (/\ encOp'.op \in {"endArray", "endDictionary", "end"} /\ encOp'.err = "none"
         /\ Open /\ Top(Enc).items # <<>>)
        => LET frame == Top(Enc)
               q == emittedAt(stack')
               Kept(its) ==
                   \A j \in 1..Len(its) :
                       isPointer(its[j])
                       => /\ isPointer(emittedWord(out', q, j))
                          /\ emittedTarget(out', q, j) = pointerValueWide(its[j])
           IN  IF encOp'.op = "end"
               THEN isPointer(frame.items[1])
                    => IF frame.wide
                       THEN LET at == outLength(out') - kNarrow - kWide
                                w == outBytes(out', at, kWide)
                            IN  isPointer(w)
                                /\ at - pointerValueWide(w) = pointerValueWide(frame.items[1])
                       ELSE /\ isPointer(trailer(out'))
                            /\ trailerPos(out') - pointerValueNarrow(trailer(out'))
                                 = pointerValueWide(frame.items[1])
               ELSE isPointer(lastItem(stack'))
                    => IF /\ sortKeys /\ frame.tag = kDictTag /\ Len(frame.keys) >= 2
                          /\ 2 * Len(frame.keys) <= Len(frame.items)
                       THEN \E indices \in sortedIndices(out, frame) :
                               Kept(sortDict(frame, indices))
                       ELSE Kept(frame.items) ]_vars

====
